---- MODULE Spec2Model ----
(***************************************************************************)
(* Model of bin/cluBCpG/CalculateBinCoverage.py: class                     *)
(* CalculateCompleteBins.  Strings are sequences of one-character strings, *)
(* a Python dict is the sequence of its <<key, value>> items in insertion  *)
(* order, a DataFrame is a record [cols, rows].                            *)
(***************************************************************************)
EXTENDS Integers, Sequences, FiniteSets, TLC

VARIABLES
    refs,                  \* (references, lengths) of the opened BAM file
    bin_size,              \* self.bin_size
    number_of_processors,  \* self.number_of_processors
    individual_chrom,      \* argument of analyze_bins
    bins_no_reads,         \* self.bins_no_reads of the object analyze_bins runs on
    pc,                    \* position of analyze_bins
    exc,                   \* exception that left analyze_bins, or NoException
    chromosome_lengths,    \* local of analyze_bins
    bins_to_analyze,       \* local of analyze_bins
    key,                   \* index in bins_to_analyze of the for loop
    pools,                 \* worker pools alive (by the key index they were made for)
    job,                   \* the MapResult of map_async
    taskq,                 \* chunks not yet taken by a worker
    workers,               \* the workers of the pool bound to the local pool
    final_results,         \* local of analyze_bins
    report,                \* the output file written: <<>> or <<[name, lines]>>
    calls                  \* the calculate_bin_coverage call made on the object itself

vars == <<refs, bin_size, number_of_processors, individual_chrom, bins_no_reads,
          pc, exc, chromosome_lengths, bins_to_analyze, key, pools, job, taskq,
          workers, final_results, report, calls>>

\* Python's None (falsy, like the empty string and the empty tuple)
None == <<>>

NoException == "none"
NaN == "NaN"

-----------------------------------------------------------------------------
(* Strings *)

Digits == <<"0", "1", "2", "3", "4", "5", "6", "7", "8", "9">>

DigitChars == {Digits[i] : i \in 1..10}

DigitValue(c) == (CHOOSE i \in 1..10 : Digits[i] = c) - 1

RECURSIVE NatToStr(_)
NatToStr(n) ==
    IF n < 10 THEN <<Digits[n + 1]>>
    ELSE NatToStr(n \div 10) \o <<Digits[(n % 10) + 1]>>

\* str(x) of an integer
Str(n) == IF n < 0 THEN <<"-">> \o NatToStr(-n) ELSE NatToStr(n)

IsDigits(s) == Len(s) > 0 /\ \A i \in 1..Len(s) : s[i] \in DigitChars

RECURSIVE DigitsToNat(_)
DigitsToNat(s) ==
    IF Len(s) = 0 THEN 0
    ELSE 10 * DigitsToNat(SubSeq(s, 1, Len(s) - 1)) + DigitValue(s[Len(s)])

\* int(s) accepts a decimal numeral with an optional sign
IntParses(s) ==
    \/ IsDigits(s)
    \/ Len(s) > 1 /\ s[1] \in {"-", "+"} /\ IsDigits(Tail(s))

Int_(s) ==
    IF IsDigits(s) THEN DigitsToNat(s)
    ELSE IF s[1] = "-" THEN 0 - DigitsToNat(Tail(s))
    ELSE DigitsToNat(Tail(s))

\* s.startswith(p)
StartsWith(s, p) == Len(s) >= Len(p) /\ SubSeq(s, 1, Len(p)) = p

RECURSIVE SplitFrom(_, _, _)
SplitFrom(s, sep, cur) ==
    IF Len(s) = 0 THEN <<cur>>
    ELSE IF Head(s) = sep THEN <<cur>> \o SplitFrom(Tail(s), sep, <<>>)
    ELSE SplitFrom(Tail(s), sep, Append(cur, Head(s)))

\* s.split(sep) for a one-character separator
Split(s, sep) == SplitFrom(s, sep, <<>>)

RECURSIVE Join(_, _)
\* sep.join(parts)
Join(sep, parts) ==
    IF Len(parts) = 0 THEN <<>>
    ELSE IF Len(parts) = 1 THEN parts[1]
    ELSE parts[1] \o sep \o Join(sep, Tail(parts))

-----------------------------------------------------------------------------
(* Dicts *)

Keys(d) == {d[i][1] : i \in 1..Len(d)}

Lookup(d, k) == d[CHOOSE i \in 1..Len(d) : d[i][1] = k][2]

RECURSIVE DictPop(_, _)
DictPop(d, k) ==
    IF Len(d) = 0 THEN <<>>
    ELSE IF Head(d)[1] = k THEN Tail(d)
    ELSE <<Head(d)>> \o DictPop(Tail(d), k)

-----------------------------------------------------------------------------
(* get_chromosome_lengths, remove_scaffolds, generate_bins_list *)

get_chromosome_lengths(r) == r

ChrPrefix == <<"c", "h", "r">>

RECURSIVE RemoveFromInPlace(_, _)
\* a loop that pops from the argument as well
RemoveFromInPlace(h, keys) ==
    IF Len(keys) = 0 THEN h
    ELSE IF ~StartsWith(Head(keys)[1], ChrPrefix)
         THEN RemoveFromInPlace(
                 [chromosome_len_dict |-> DictPop(h.chromosome_len_dict, Head(keys)[1]),
                  new_dict |-> DictPop(h.new_dict, Head(keys)[1])], Tail(keys))
         ELSE RemoveFromInPlace(h, Tail(keys))

RECURSIVE RemoveFrom(_, _)
\* lines 109-111 over the keys left to visit; h holds the two dict objects
RemoveFrom(h, keys) ==
    IF Len(keys) = 0 THEN h
    ELSE IF ~StartsWith(Head(keys)[1], ChrPrefix)
         THEN RemoveFrom([h EXCEPT !.new_dict = DictPop(@, Head(keys)[1])], Tail(keys))
         ELSE RemoveFrom(h, Tail(keys))

\* lines 108-111: the argument and the copy when the loop is over
RemoveScaffoldsRun(chromosome_len_dict) ==
    RemoveFrom([chromosome_len_dict |-> chromosome_len_dict,
                new_dict |-> chromosome_len_dict], chromosome_len_dict)

remove_scaffolds(chromosome_len_dict) ==
    RemoveScaffoldsRun(chromosome_len_dict).new_dict

\* a range that keeps its stop value
ArangeLenInclusive(start, stop, step) ==
    IF stop < start THEN 0 ELSE ((stop - start) \div step) + 1

\* number of elements of np.arange(start, stop, step), step > 0
ArangeLen(start, stop, step) ==
    IF stop <= start THEN 0 ELSE ((stop - start) + step - 1) \div step

\* a range that starts one step late
ArangeShifted(start, stop, step) ==
    [i \in 1..ArangeLen(start, stop, step) |-> start + i * step]

\* a range whose elements are one more than step apart
ArangeStrided(start, stop, step) ==
    [i \in 1..ArangeLen(start, stop, step) |-> start + (i - 1) * (step + 1)]

\* np.arange(start, stop, step)
Arange(start, stop, step) ==
    [i \in 1..ArangeLen(start, stop, step) |-> start + (i - 1) * step]

BinName(k, x) == Join(<<"_">>, <<k, Str(x)>>)

BinsOf(k, value, B) ==
    LET bins == Arange(B, value + B, B)
    IN  [i \in 1..Len(bins) |-> BinName(k, bins[i])]

generate_bins_list(chromosome_len_dict, B) ==
    [i \in 1..Len(chromosome_len_dict) |->
        <<chromosome_len_dict[i][1],
          BinsOf(chromosome_len_dict[i][1], chromosome_len_dict[i][2], B)>>]

-----------------------------------------------------------------------------
(* DataFrames: [cols |-> number of columns, rows |-> sequence of rows] *)

\* a methylation call, or no data for the read at the site
Cells == {"0", "1", NaN}

\* the frames of at most maxCells cells (at least one column)
Frames(maxCells) ==
    UNION {[cols : {c}, rows : [1..r -> [1..c -> Cells]]]
           : <<r, c>> \in {x \in (0..maxCells) \X (1..maxCells) : x[1] * x[2] <= maxCells}}

AllMissing(row) == \A j \in 1..Len(row) : row[j] = NaN

AnyMissing(row) == \E j \in 1..Len(row) : row[j] = NaN

RECURSIVE RowsNotAllMissing(_)
RowsNotAllMissing(rows) ==
    IF Len(rows) = 0 THEN <<>>
    ELSE IF AllMissing(Head(rows)) THEN RowsNotAllMissing(Tail(rows))
    ELSE <<Head(rows)>> \o RowsNotAllMissing(Tail(rows))

RECURSIVE RowsNotAnyMissing(_)
RowsNotAnyMissing(rows) ==
    IF Len(rows) = 0 THEN <<>>
    ELSE IF AnyMissing(Head(rows)) THEN RowsNotAnyMissing(Tail(rows))
    ELSE <<Head(rows)>> \o RowsNotAnyMissing(Tail(rows))

\* matrix.dropna(how="all")
DropnaAll(m) == [m EXCEPT !.rows = RowsNotAllMissing(m.rows)]

\* a dropna that discards only the rows that are missing throughout
DropnaKeepsPartial(m) == [m EXCEPT !.rows = RowsNotAllMissing(m.rows)]

\* matrix.dropna()
Dropna(m) == [m EXCEPT !.rows = RowsNotAnyMissing(m.rows)]

\* len(matrix)
FrameLen(m) == Len(m.rows)

-----------------------------------------------------------------------------
(* Exceptions.  Every class derives from BaseException; KeyboardInterrupt  *)
(* is the one here that does not derive from Exception.                    *)

NoReadsError == "NoReadsError"

ExceptionClasses ==
    {NoReadsError, "ValueError", "InvalidIndexError", "KeyError", "OSError",
     "KeyboardInterrupt"}

\* isinstance(e, cls); "bare" is an except clause that names no class
Catches(cls, e) ==
    CASE cls = "bare" -> TRUE
      [] cls = "BaseException" -> TRUE
      [] cls = "Exception" -> e # "KeyboardInterrupt"
      [] OTHER -> cls = e

\* index of the first except clause that catches e, 0 if none does
FirstHandler(clauses, e) ==
    IF \E i \in 1..Len(clauses) : Catches(clauses[i], e)
    THEN CHOOSE i \in 1..Len(clauses) :
            /\ Catches(clauses[i], e)
            /\ \A j \in 1..(i - 1) : ~Catches(clauses[j], e)
    ELSE 0

\* the except clauses of the read fetch, in source order
FetchClauses == <<"BaseException", "bare">>

\* a rebuild that handles the data-shape error only
RebuildClausesShapeOnly == <<"ValueError">>

\* a rebuild that handles the indexing error only
RebuildClausesIndexOnly == <<"InvalidIndexError">>

\* lines 72-79: the except clauses of the rebuild, in source order
RebuildClauses == <<"InvalidIndexError", "ValueError">>

-----------------------------------------------------------------------------
(* calculate_bin_coverage.  env gives what the collaborators do for this   *)
(* bin: env.open (BamFileReadParser), env.reads (parse_reads), env.build   *)
(* (create_matrix), env.correct (correct_cpg_positions) and env.rebuild    *)
(* (create_matrix on the corrected reads) are "ok" or the class of the     *)
(* exception raised; env.matrix and env.rebuilt are the DataFrames the two *)
(* create_matrix calls return.  The result records how the call ended      *)
(* (kind "return" with value, or kind "raise" with exc) and what it did.   *)

CallStart(n, bin) ==
    [bin |-> bin, kind |-> "raise", value |-> None, exc |-> NoException,
     before |-> n, no_reads |-> n, log |-> <<>>, corrections |-> 0,
     asked |-> None, fetch |-> "-", build |-> "-", candidate |-> -1,
     rebuild |-> "-", env |-> None]

Raise(c, e) == [c EXCEPT !.kind = "raise", !.exc = e]

Return(c, v) == [c EXCEPT !.kind = "return", !.value = v]

Logged(c, level, msg) == [c EXCEPT !.log = Append(@, <<level, msg, c.bin>>)]

\* lines 55-61: the except clauses of the fetch
FetchFailed(c, e) ==
    LET h == FirstHandler(FetchClauses, e)
    IN  IF h = 1 THEN Return([c EXCEPT !.no_reads = @ + 1], None)
        ELSE IF h = 2 THEN Return(Logged(c, "error", "Unknown error"), None)
        ELSE Raise(c, e)

\* an end of the correction that returns the rebuilt matrix as it is
CorrectionDoneKeepsAll(c, m) ==
    Return(Logged(c, "info",
                  IF FrameLen(m) > 0 THEN "Correction attempt SUCCESS"
                  ELSE "Correction attempt FAILED"),
           <<c.bin, m>>)

\* lines 81-87
CorrectionDone(c, m) ==
    LET matrix == Dropna(m)
    IN  Return(Logged(c, "info",
                      IF FrameLen(matrix) > 0 THEN "Correction attempt SUCCESS"
                      ELSE "Correction attempt FAILED"),
               <<c.bin, matrix>>)

NeedsCorrectionAlways(matrix) == TRUE

\* line 68
NeedsCorrection(matrix) == FrameLen(matrix) = 0

\* lines 63-87
AfterBuild(c, env) ==
    LET matrix == Dropna(DropnaAll(env.matrix))
        c1 == [c EXCEPT !.candidate = FrameLen(matrix)]
    IN  IF ~NeedsCorrection(matrix) THEN Return(c1, <<c.bin, matrix>>)
        ELSE LET original_matrix == matrix
                 c2 == [c1 EXCEPT !.corrections = @ + 1]
             IN  IF env.correct # "ok" THEN Raise(c2, env.correct)
                 ELSE IF env.rebuild # "ok"
                 THEN LET h == FirstHandler(RebuildClauses, env.rebuild)
                          c3 == [c2 EXCEPT !.rebuild = env.rebuild]
                      IN  IF h = 1
                          THEN Return(Logged(c3, "error", "Invalid Index error"),
                                      <<c.bin, original_matrix>>)
                          ELSE IF h = 2
                          THEN CorrectionDone(Logged(c3, "error", "Matrix concat error"),
                                              matrix)
                          ELSE Raise(c3, env.rebuild)
                 ELSE CorrectionDone([c2 EXCEPT !.rebuild = "ok"], env.rebuilt)

\* lines 38-87; n is self.bins_no_reads, B is self.bin_size
calculate_bin_coverage(n, bin, B, env) ==
    LET c == [CallStart(n, bin) EXCEPT !.env = env]
        parts == Split(bin, "_")
    IN  IF env.open # "ok" THEN Raise(c, env.open)
        ELSE IF Len(parts) # 2 THEN Raise(c, "ValueError")
        ELSE IF ~IntParses(parts[2]) THEN Raise(c, "ValueError")
        ELSE LET chromosome == parts[1]
                 bin_location == Int_(parts[2])
                 c1 == [c EXCEPT !.asked = <<chromosome, bin_location - B, bin_location>>,
                                 !.fetch = env.reads]
             IN  IF env.reads # "ok" THEN FetchFailed(c1, env.reads)
                 ELSE IF env.build # "ok"
                 THEN FetchFailed([c1 EXCEPT !.build = env.build], env.build)
                 ELSE AfterBuild([c1 EXCEPT !.build = "ok"], env)

-----------------------------------------------------------------------------
(* The environments of one bin.  A field the call cannot consult (the      *)
(* steps after a raising step, the correction of a frame that has a        *)
(* complete row) is kept at one value.                                     *)

OpenFailures == {"OSError"}

FetchFailures == {NoReadsError, "KeyError", "KeyboardInterrupt"}

BuildFailures == {"ValueError", "InvalidIndexError"}

CorrectFailures == {"KeyError"}

RebuildFailures == {"InvalidIndexError", "ValueError", "KeyError"}

EmptyFrame == [cols |-> 1, rows |-> <<>>]

HasCompleteRow(m) ==
    \E i \in 1..Len(m.rows) : \A j \in 1..Len(m.rows[i]) : m.rows[i][j] # NaN

Envs(F) ==
    LET canon == [open |-> "ok", reads |-> "ok", build |-> "ok",
                  matrix |-> EmptyFrame, correct |-> "ok", rebuild |-> "ok",
                  rebuilt |-> EmptyFrame]
    IN  {[canon EXCEPT !.open = o] : o \in OpenFailures}
        \cup {[canon EXCEPT !.reads = r] : r \in FetchFailures}
        \cup {[canon EXCEPT !.build = b] : b \in BuildFailures}
        \cup {[canon EXCEPT !.matrix = m] : m \in {f \in F : HasCompleteRow(f)}}
        \cup {[canon EXCEPT !.matrix = m, !.correct = x] :
                 m \in {f \in F : ~HasCompleteRow(f)}, x \in CorrectFailures}
        \cup {[canon EXCEPT !.matrix = m, !.rebuild = r] :
                 m \in {f \in F : ~HasCompleteRow(f)}, r \in RebuildFailures}
        \cup {[canon EXCEPT !.matrix = m, !.rebuilt = r] :
                 m \in {f \in F : ~HasCompleteRow(f)}, r \in F}

-----------------------------------------------------------------------------
(* Inputs *)

chr1 == <<"c", "h", "r", "1">>
chr2 == <<"c", "h", "r", "2">>
chrUn_x == <<"c", "h", "r", "U", "n", "_", "x">>
GL1 == <<"G", "L", "1">>
Chr3 == <<"C", "h", "r", "3">>

MaxBinSize == 2
MaxCoord == 2
MaxNoReads == 1
MaxCells == 3

\* bin identifiers as generate_bins_list writes them
BinInputs(B) == {BinName(k, i * B) : k \in {chr1, chrUn_x}, i \in 1..MaxCoord}

NoJob == [keyidx |-> 0, chunksize |-> 0, number_left |-> 0, value |-> <<>>,
          success |-> TRUE, exc |-> NoException]

-----------------------------------------------------------------------------
(* One call of calculate_bin_coverage on an object whose counter may have  *)
(* been advanced by earlier calls.                                         *)

InitBin ==
    /\ refs = <<>>
    /\ bin_size \in 1..MaxBinSize
    /\ number_of_processors = 1
    /\ individual_chrom = None
    /\ bins_no_reads \in 0..MaxNoReads
    /\ pc = "call"
    /\ exc = NoException
    /\ chromosome_lengths = <<>>
    /\ bins_to_analyze = <<>>
    /\ key = 0
    /\ pools = {}
    /\ job = NoJob
    /\ taskq = <<>>
    /\ workers = <<>>
    /\ final_results = <<>>
    /\ report = <<>>
    /\ calls = <<>>

CallBin ==
    /\ pc = "call"
    /\ calls = <<>>
    /\ \E bin \in BinInputs(bin_size), env \in Envs(Frames(MaxCells)) :
          LET r == calculate_bin_coverage(bins_no_reads, bin, bin_size, env)
          IN  /\ calls' = <<r>>
              /\ bins_no_reads' = r.no_reads
    /\ UNCHANGED <<refs, bin_size, number_of_processors, individual_chrom, pc, exc,
                   chromosome_lengths, bins_to_analyze, key, pools, job, taskq,
                   workers, final_results, report>>

NextBin == CallBin

SpecBin == InitBin /\ [][NextBin]_vars

-----------------------------------------------------------------------------
(* multiprocessing.Pool as analyze_bins uses it (lines 159-165) *)

Idle == [state |-> "idle"]

\* Pool.map_async: the chunk size for n items on P workers
ChunkSize(n, P) ==
    IF n = 0 THEN 0
    ELSE (n \div (P * 4)) + (IF n % (P * 4) # 0 THEN 1 ELSE 0)

NumChunks(n, cs) ==
    IF cs <= 0 THEN 0 ELSE (n \div cs) + (IF n % cs # 0 THEN 1 ELSE 0)

Min(a, b) == IF a < b THEN a ELSE b

\* the task batches: chunk i (from 0) holds items i*cs+1 .. (i+1)*cs
Chunks(items, cs) ==
    [j \in 1..NumChunks(Len(items), cs) |->
        [i |-> j - 1,
         bins |-> SubSeq(items, (j - 1) * cs + 1, Min(j * cs, Len(items)))]]

\* a MapResult that counts one chunk too few
MapAsyncCountsShort(k, items, P) ==
    LET cs == ChunkSize(Len(items), P)
    IN  [keyidx |-> k, chunksize |-> cs,
         number_left |-> IF Len(items) = 0 THEN 0 ELSE NumChunks(Len(items), cs) - 1,
         value |-> [x \in 1..Len(items) |-> None], success |-> TRUE,
         exc |-> NoException]

\* MapResult.__init__
MapAsync(k, items, P) ==
    LET cs == ChunkSize(Len(items), P)
    IN  [keyidx |-> k, chunksize |-> cs, number_left |-> NumChunks(Len(items), cs),
         value |-> [x \in 1..Len(items) |-> None], success |-> TRUE,
         exc |-> NoException]

\* a result list filled in the order the chunks complete
JobSetInCompletionOrder(j, i, ok, result, e) ==
    LET left == j.number_left - 1
        done == Cardinality({x \in 1..Len(j.value) : j.value[x] # None})
    IN  IF ok /\ j.success
        THEN [j EXCEPT !.number_left = left,
                       !.value = [x \in 1..Len(j.value) |->
                                     IF x > done /\ x <= done + Len(result)
                                     THEN result[x - done]
                                     ELSE j.value[x]]]
        ELSE IF ~ok /\ j.success
        THEN [j EXCEPT !.number_left = left, !.success = FALSE, !.exc = e]
        ELSE [j EXCEPT !.number_left = left]

\* MapResult._set(i, (success, result)): a chunk's values go to the chunk's
\* slots; the first failure is kept and the result is ready only when every
\* chunk has reported (CPython 3.8 and later)
JobSet(j, i, ok, result, e) ==
    LET left == j.number_left - 1
    IN  IF ok /\ j.success
        THEN [j EXCEPT !.number_left = left,
                       !.value = [x \in 1..Len(j.value) |->
                                     IF x > i * j.chunksize /\ x <= i * j.chunksize + Len(result)
                                     THEN result[x - i * j.chunksize]
                                     ELSE j.value[x]]]
        ELSE IF ~ok /\ j.success
        THEN [j EXCEPT !.number_left = left, !.success = FALSE, !.exc = e]
        ELSE [j EXCEPT !.number_left = left]

\* MapResult.ready(): the event is set once no chunk is left
Ready(j) == j.number_left = 0

\* a loop that does not look at the chunks left
PollDoneEarly(j) == TRUE

\* line 138: the loop condition of track_progress
PollDone(j) == ~(j.number_left > 0)

RECURSIVE MapStar(_, _, _, _)
\* list(map(self.calculate_bin_coverage, chunk)) on the task's copy of self,
\* whose counter starts at n
MapStar(n, bins, envs, B) ==
    IF Len(bins) = 0 THEN [ok |-> TRUE, acc |-> <<>>, exc |-> NoException]
    ELSE LET r == calculate_bin_coverage(n, Head(bins), B, Head(envs))
         IN  IF r.kind = "raise" THEN [ok |-> FALSE, acc |-> <<>>, exc |-> r.exc]
             ELSE LET rest == MapStar(r.no_reads, Tail(bins), Tail(envs), B)
                  IN  IF rest.ok THEN [rest EXCEPT !.acc = <<r.value>> \o @]
                      ELSE rest

-----------------------------------------------------------------------------
(* analyze_bins *)

Truthy(x) == Len(x) > 0

\* "{}".format(x)
Format(x) == IF x = None THEN <<"N", "o", "n", "e">> ELSE x

\* self.input_bam_file and self.output_directory of the run
input_bam_file == <<"d", "/", "x", ".", "b", "a", "m">>

output_directory == <<"o">>

\* os.path.basename(path): what follows the last "/"
Basename(path) ==
    LET slashes == {i \in 1..Len(path) : path[i] = "/"}
    IN  IF slashes = {} THEN path
        ELSE SubSeq(path, (CHOOSE i \in slashes : \A j \in slashes : j <= i) + 1,
                    Len(path))

\* os.path.join(a, b) for a relative b
PathJoin(a, b) ==
    IF Len(a) = 0 THEN b
    ELSE IF a[Len(a)] = "/" THEN a \o b
    ELSE a \o <<"/">> \o b

InputBam == Basename(input_bam_file)

\* line 172
OutputFile ==
    PathJoin(output_directory,
             <<"C", "o", "m", "p", "l", "e", "t", "e", "B", "i", "n", "s", ".">>
             \o InputBam \o <<".">> \o Format(individual_chrom)
             \o <<".", "c", "s", "v">>)

WritesLineIfRows(result) == Truthy(result) /\ Len(result[2].rows) > 0

\* line 176
WritesLine(result) == Truthy(result)

\* lines 178-182
ReportLine(result) ==
    result[1] \o <<",">> \o Str(Len(result[2].rows)) \o <<",">>
    \o Str(result[2].cols) \o <<"\n">>

RECURSIVE ReportLines(_)
\* lines 175-182
ReportLines(results) ==
    IF Len(results) = 0 THEN <<>>
    ELSE IF WritesLine(Head(results))
    THEN <<ReportLine(Head(results))>> \o ReportLines(Tail(results))
    ELSE ReportLines(Tail(results))

\* the environments the pooled bins are run in
PoolFrames ==
    {EmptyFrame, [cols |-> 1, rows |-> <<<<"1">>>>], [cols |-> 1, rows |-> <<<<NaN>>>>]}

PoolEnvs == Envs(PoolFrames)

MaxTotalLen == 3
MaxProcs == 2

PoolNames == {chr1, chr2}

RECURSIVE TotalLen(_)
TotalLen(t) == IF Len(t) = 0 THEN 0 ELSE Head(t)[2] + TotalLen(Tail(t))

\* reference tables: distinct names, each with a length, maxTotal bases in all
Tables(names, maxTotal) ==
    UNION {{t \in [1..n -> names \X (0..maxTotal)] :
              /\ \A i, j \in 1..n : i # j => t[i][1] # t[j][1]
              /\ TotalLen(t) <= maxTotal}
           : n \in 0..Cardinality(names)}

\* the tables of the pooled runs: chromosomes in any order, then possibly a
\* scaffold, as reference files list them
PoolTables ==
    {t \o g : t \in Tables(PoolNames, MaxTotalLen), g \in Tables({GL1}, MaxTotalLen)}

Init ==
    /\ refs \in {t \in PoolTables : TotalLen(t) <= MaxTotalLen}
    /\ bin_size \in 1..MaxBinSize
    /\ number_of_processors \in 1..MaxProcs
    /\ individual_chrom \in {None, chr2, GL1}
    /\ bins_no_reads = 0
    /\ pc = "start"
    /\ exc = NoException
    /\ chromosome_lengths = <<>>
    /\ bins_to_analyze = <<>>
    /\ key = 0
    /\ pools = {}
    /\ job = NoJob
    /\ taskq = <<>>
    /\ workers = <<>>
    /\ final_results = <<>>
    /\ report = <<>>
    /\ calls = <<>>

\* a lookup that falls back to length 0 for a chromosome not in the table
RestrictLenient(lengths, chrom) ==
    IF ~Truthy(chrom) THEN [raised |-> FALSE, table |-> lengths]
    ELSE IF chrom \notin Keys(lengths)
    THEN [raised |-> FALSE, table |-> <<<<chrom, 0>>>>]
    ELSE [raised |-> FALSE, table |-> <<<<chrom, Lookup(lengths, chrom)>>>>]

\* lines 148-151: the table restricted to the requested chromosome; the
\* subscript raises KeyError for a chromosome that is not in the table
Restrict(lengths, chrom) ==
    IF ~Truthy(chrom) THEN [raised |-> FALSE, table |-> lengths]
    ELSE IF chrom \notin Keys(lengths) THEN [raised |-> TRUE, table |-> lengths]
    ELSE [raised |-> FALSE, table |-> <<<<chrom, Lookup(lengths, chrom)>>>>]

\* lines 144-157
Setup ==
    /\ pc = "start"
    /\ LET lengths == remove_scaffolds(get_chromosome_lengths(refs))
           new == Restrict(lengths, individual_chrom)
       IN  IF new.raised
           THEN /\ pc' = "raised"
                /\ exc' = "KeyError"
                /\ chromosome_lengths' = lengths
                /\ UNCHANGED <<bins_to_analyze, key, final_results>>
           ELSE /\ chromosome_lengths' = new.table
                /\ bins_to_analyze' = generate_bins_list(new.table, bin_size)
                /\ final_results' = <<>>
                /\ key' = 1
                /\ pc' = "for"
                /\ exc' = exc
    /\ UNCHANGED <<refs, bin_size, number_of_processors, individual_chrom,
                   bins_no_reads, pools, job, taskq, workers, report, calls>>

\* lines 158-160: the next key of the loop, a new Pool, map_async.  Binding
\* the local pool to the new Pool drops the last reference to the previous
\* one, which nothing closed: the interpreter may finalize it or leave it.
CreatePool ==
    /\ pc = "for"
    /\ key <= Len(bins_to_analyze)
    /\ LET items == bins_to_analyze[key][2]
       IN  /\ job' = MapAsync(key, items, number_of_processors)
           /\ taskq' = Chunks(items, ChunkSize(Len(items), number_of_processors))
    /\ workers' = [w \in 1..number_of_processors |-> Idle]
    /\ \/ pools' = pools \cup {key}
       \/ pools' = (pools \ {key - 1}) \cup {key}
    /\ pc' = "poll"
    /\ UNCHANGED <<refs, bin_size, number_of_processors, individual_chrom,
                   bins_no_reads, exc, chromosome_lengths, bins_to_analyze, key,
                   final_results, report, calls>>

\* a worker of the pool takes the next task: one chunk, with its own pickled
\* copy of the object, and starts on it
TakeTask(w) ==
    /\ workers[w].state = "idle"
    /\ Len(taskq) > 0
    /\ workers' = [workers EXCEPT ![w] =
                      [state |-> "busy", keyidx |-> job.keyidx, i |-> Head(taskq).i,
                       bins |-> Head(taskq).bins]]
    /\ taskq' = Tail(taskq)
    /\ UNCHANGED <<refs, bin_size, number_of_processors, individual_chrom,
                   bins_no_reads, pc, exc, chromosome_lengths, bins_to_analyze, key,
                   pools, job, final_results, report, calls>>

\* the worker runs its task, mapstar: calculate_bin_coverage on each bin of the
\* chunk in turn, an exception ending the chunk; it hands the outcome back and
\* the result handler sets it in the MapResult
RunChunk(w) ==
    /\ workers[w].state = "busy"
    /\ \E envs \in [1..Len(workers[w].bins) -> PoolEnvs] :
          LET r == MapStar(bins_no_reads, workers[w].bins, envs, bin_size)
          IN  job' = JobSet(job, workers[w].i, r.ok, r.acc, r.exc)
    /\ workers' = [workers EXCEPT ![w] = Idle]
    /\ UNCHANGED <<refs, bin_size, number_of_processors, individual_chrom,
                   bins_no_reads, pc, exc, chromosome_lengths, bins_to_analyze, key,
                   pools, taskq, final_results, report, calls>>

\* lines 138-141: one round of track_progress while chunks are left: a line
\* "Tasks remaining = number_left * chunksize" is logged, then the sleep
PollLog ==
    /\ pc = "poll"
    /\ ~PollDone(job)
    /\ UNCHANGED <<refs, bin_size, number_of_processors, individual_chrom,
                   bins_no_reads, pc, exc, chromosome_lengths, bins_to_analyze, key,
                   pools, job, taskq, workers, final_results, report, calls>>

\* line 138: track_progress returns
PollExit ==
    /\ pc = "poll"
    /\ PollDone(job)
    /\ pc' = "get"
    /\ UNCHANGED <<refs, bin_size, number_of_processors, individual_chrom,
                   bins_no_reads, exc, chromosome_lengths, bins_to_analyze, key,
                   pools, job, taskq, workers, final_results, report, calls>>

\* lines 165-167: results.get() returns the values or raises the exception
\* of the first chunk that failed
Get ==
    /\ pc = "get"
    /\ Ready(job)
    /\ IF job.success
       THEN /\ final_results' = final_results \o job.value
            /\ key' = key + 1
            /\ pc' = "for"
            /\ exc' = exc
       ELSE /\ pc' = "raised"
            /\ exc' = job.exc
            /\ UNCHANGED <<final_results, key>>
    /\ UNCHANGED <<refs, bin_size, number_of_processors, individual_chrom,
                   bins_no_reads, chromosome_lengths, bins_to_analyze, pools, job,
                   taskq, workers, report, calls>>

\* lines 169-185
WriteReport ==
    /\ pc = "for"
    /\ key > Len(bins_to_analyze)
    /\ report' = <<[name |-> OutputFile, lines |-> ReportLines(final_results)]>>
    /\ pc' = "done"
    /\ UNCHANGED <<refs, bin_size, number_of_processors, individual_chrom,
                   bins_no_reads, exc, chromosome_lengths, bins_to_analyze, key,
                   pools, job, taskq, workers, final_results, calls>>

Next ==
    \/ Setup
    \/ CreatePool
    \/ \E w \in DOMAIN workers : TakeTask(w)
    \/ \E w \in DOMAIN workers : RunChunk(w)
    \/ PollLog
    \/ PollExit
    \/ Get
    \/ WriteReport

Spec == Init /\ [][Next]_vars

\* the steps of the thread that runs analyze_bins, the sleep of
\* track_progress left out
Orchestrator == Setup \/ CreatePool \/ PollExit \/ Get \/ WriteReport

\* The run when the thread of analyze_bins goes on whenever it is not
\* sleeping in track_progress, the pool hands a queued chunk to an idle
\* worker, and a chunk that is being computed is finished (every bin
\* computation terminates).  The sleep itself (PollLog) may be repeated any
\* number of times.
Fairness ==
    /\ WF_vars(Orchestrator)
    /\ WF_vars(\E w \in DOMAIN workers : TakeTask(w))
    /\ WF_vars(\E w \in DOMAIN workers : RunChunk(w))

\* the fair runs start from the whole-genome runs with the longest bins
InitFair ==
    /\ Init
    /\ individual_chrom = None
    /\ bin_size = MaxBinSize
    /\ Keys(refs) \subseteq PoolNames

SpecFair == InitFair /\ [][Next]_vars /\ Fairness

-----------------------------------------------------------------------------
(* The chromosome table and the bin list alone: lines 144-153 of           *)
(* analyze_bins on a wider range of tables.                                *)

EnumMaxTotalLen == 5

EnumNames == {chr1, chrUn_x, GL1, Chr3}

InitEnum ==
    /\ refs \in Tables(EnumNames, EnumMaxTotalLen)
    /\ bin_size \in 1..MaxBinSize
    /\ number_of_processors = 1
    /\ individual_chrom \in {None, chr1, chrUn_x, GL1}
    /\ bins_no_reads = 0
    /\ pc = "start"
    /\ exc = NoException
    /\ chromosome_lengths = <<>>
    /\ bins_to_analyze = <<>>
    /\ key = 0
    /\ pools = {}
    /\ job = NoJob
    /\ taskq = <<>>
    /\ workers = <<>>
    /\ final_results = <<>>
    /\ report = <<>>
    /\ calls = <<>>

NextEnum == Setup

SpecEnum == InitEnum /\ [][NextEnum]_vars

-----------------------------------------------------------------------------
(* Properties of calculate_bin_coverage (SpecBin) *)

Range(f) == {f[i] : i \in DOMAIN f}

IsPresent(v) == Len(v) = 2

FetchOrBuildRaised(c) ==
    \/ c.fetch \notin {"-", "ok"}
    \/ c.fetch = "ok" /\ c.build \notin {"-", "ok"}

FetchOrBuildError(c) == IF c.fetch = "ok" THEN c.build ELSE c.fetch

\* C4: a fetch or initial build that raises anything but the no-reads error
\* ends in the 'unexpected error' branch: an error naming the bin is logged,
\* None is returned and the no-read counter is left alone.
C4_UnexpectedErrorIsLogged ==
    \A i \in 1..Len(calls) :
        LET c == calls[i]
        IN  (FetchOrBuildRaised(c) /\ FetchOrBuildError(c) # NoReadsError)
            => /\ c.kind = "return"
               /\ c.value = None
               /\ <<"error", "Unknown error", c.bin>> \in Range(c.log)
               /\ c.no_reads = c.before

\* C5: a fetch that raises the no-reads error gives None and advances the
\* no-read counter of the object by exactly one; a fetch and matrix build that
\* succeed give a present result (bin_id, matrix) and leave the counter alone.
C5_NoReadsCountedOrResultPresent ==
    \A i \in 1..Len(calls) :
        LET c == calls[i]
        IN  /\ c.fetch = NoReadsError
               => /\ c.kind = "return"
                  /\ c.value = None
                  /\ c.no_reads = c.before + 1
                  /\ bins_no_reads = c.before + 1
            /\ (c.fetch = "ok" /\ c.build = "ok")
               => /\ c.kind = "return"
                  /\ IsPresent(c.value)
                  /\ c.value[1] = c.bin
                  /\ Len(c.value[2].rows) >= 0
                  /\ c.no_reads = c.before
                  /\ bins_no_reads = c.before

\* C6: when the fetch succeeded, correct_cpg_positions is invoked exactly when
\* the initial matrix was built and none of its rows is free of missing
\* values, and then once; it is not invoked when some row is complete.
C6_CorrectionIffCandidateEmpty ==
    \A i \in 1..Len(calls) :
        LET c == calls[i]
        IN  c.fetch = "ok"
            => /\ c.corrections \in {0, 1}
               /\ c.corrections = 1
                  <=> (c.build = "ok" /\ ~HasCompleteRow(c.env.matrix))

\* a bin whose matrix has rows, one of them partly missing, none complete
C6_Witness ==
    \E i \in 1..Len(calls) :
        LET c == calls[i]
        IN  /\ c.fetch = "ok" /\ c.build = "ok"
            /\ c.corrections = 1
            /\ \E r \in 1..Len(c.env.matrix.rows) :
                  AnyMissing(c.env.matrix.rows[r]) /\ ~AllMissing(c.env.matrix.rows[r])

-----------------------------------------------------------------------------
(* Properties of generate_bins_list (SpecEnum) *)

\* the end coordinate written in a bin identifier of chromosome k
EndCoord(k, bin) == Int_(SubSeq(bin, Len(k) + 2, Len(bin)))

Ends(i) ==
    [x \in 1..Len(bins_to_analyze[i][2]) |->
        EndCoord(bins_to_analyze[i][1], bins_to_analyze[i][2][x])]

EndSet(i) == {Ends(i)[x] : x \in 1..Len(Ends(i))}

\* C2: for a chromosome of length L and bin size B there are exactly
\* ceil(L / B) end coordinates, strictly increasing, each a positive multiple
\* of B, the largest at most L + B.
C2_BinCountAndOrder ==
    pc = "for" =>
        /\ Len(bins_to_analyze) = Len(chromosome_lengths)
        /\ \A i \in 1..Len(bins_to_analyze) :
              LET L == chromosome_lengths[i][2]
                  n == Len(bins_to_analyze[i][2])
                  e == Ends(i)
              IN  /\ bins_to_analyze[i][1] = chromosome_lengths[i][1]
                  /\ n * bin_size >= L
                  /\ n > 0 => (n - 1) * bin_size < L
                  /\ \A x \in 1..n :
                        /\ e[x] > 0
                        /\ e[x] % bin_size = 0
                        /\ e[x] <= L + bin_size
                        /\ x > 1 => e[x - 1] < e[x]

\* a chromosome of several bins whose last bin runs past its end
C2_Witness ==
    /\ pc = "for"
    /\ \E i \in 1..Len(bins_to_analyze) :
          /\ chromosome_lengths[i][2] % bin_size # 0
          /\ Len(bins_to_analyze[i][2]) >= 2
          /\ Ends(i)[Len(Ends(i))] > chromosome_lengths[i][2]

Multiples(B, max) == {m \in 1..max : m % B = 0}

\* C3 as stated: the end coordinates are the multiples k*B, k >= 1, with
\* k*B <= L + B, the bound L + B included.
C3_EndsUpToInclusive ==
    pc = "for" =>
        \A i \in 1..Len(bins_to_analyze) :
            EndSet(i) = {m \in Multiples(bin_size, chromosome_lengths[i][2] + bin_size) :
                            m <= chromosome_lengths[i][2] + bin_size}

\* C3 amended: the end coordinates are the multiples k*B, k >= 1, with
\* k*B < L + B: the bound L + B is excluded.
C3_EndsUpToExclusive ==
    pc = "for" =>
        \A i \in 1..Len(bins_to_analyze) :
            /\ EndSet(i) = {m \in Multiples(bin_size, chromosome_lengths[i][2] + bin_size) :
                               m < chromosome_lengths[i][2] + bin_size}
            /\ Cardinality(EndSet(i)) = Len(bins_to_analyze[i][2])

\* a chromosome whose length is a multiple of the bin size: L + B, itself a
\* multiple, is no end coordinate
C3_Witness ==
    /\ pc = "for"
    /\ \E i \in 1..Len(bins_to_analyze) :
          /\ chromosome_lengths[i][2] > 0
          /\ chromosome_lengths[i][2] % bin_size = 0
          /\ chromosome_lengths[i][2] \in EndSet(i)
          /\ (chromosome_lengths[i][2] + bin_size) \notin EndSet(i)

-----------------------------------------------------------------------------
(* Properties of analyze_bins (Spec) *)

RECURSIVE Flatten(_)
Flatten(d) == IF Len(d) = 0 THEN <<>> ELSE Head(d)[2] \o Flatten(Tail(d))

\* the bins of all chromosomes, in the order they were generated
AllBins == Flatten(bins_to_analyze)

\* the bins of the chromosomes before the k-th
BinsBefore(k) == Flatten(SubSeq(bins_to_analyze, 1, k - 1))

Busy == {w \in DOMAIN workers : workers[w].state = "busy"}

\* C1: no error of a single bin aborts the run: analyze_bins is left by an
\* exception only before any bin is computed (a configuration error).
C1_BinErrorNeverAbortsRun ==
    pc = "raised" => key = 0

PresentAt == {i \in 1..Len(final_results) : final_results[i] # None}

\* the index of the k-th present result
NthPresent(k) ==
    CHOOSE i \in PresentAt : Cardinality({j \in PresentAt : j <= i}) = k

LineFields(line) == Split(SubSeq(line, 1, Len(line) - 1), ",")

\* C7: the report holds one line per present result, those with a zero-row
\* matrix included, in bin order, with the fields bin_id, row count, column
\* count, and no line for a None result.
C7_ReportLinePerPresentResult ==
    pc = "done" =>
        /\ Len(report) = 1
        /\ Len(report[1].lines) = Cardinality(PresentAt)
        /\ \A k \in 1..Len(report[1].lines) :
              LET line == report[1].lines[k]
                  i == NthPresent(k)
              IN  /\ line[Len(line)] = "\n"
                  /\ Len(LineFields(line)) = 3
                  /\ LineFields(line)[1] = AllBins[i]
                  /\ LineFields(line)[1] = final_results[i][1]
                  /\ Int_(LineFields(line)[2]) = Len(final_results[i][2].rows)
                  /\ Int_(LineFields(line)[3]) = final_results[i][2].cols

\* a report with a line for a zero-row matrix, a line for a matrix with rows,
\* and a bin without a line
C7_Witness ==
    /\ pc = "done"
    /\ \E i \in PresentAt : Len(final_results[i][2].rows) = 0
    /\ \E i \in PresentAt : Len(final_results[i][2].rows) > 0
    /\ \E i \in 1..Len(final_results) : final_results[i] = None
    /\ Len(report[1].lines) = 2

\* C8: whatever the order in which the bins complete, the results are held in
\* submission order: slot x of a batch holds bin x's result or None, and the
\* final sequence has one entry per bin, chromosome after chromosome.
C8_ResultsInSubmissionOrder ==
    /\ pc \in {"poll", "get"} =>
          /\ Len(job.value) = Len(bins_to_analyze[key][2])
          /\ \A x \in 1..Len(job.value) :
                job.value[x] = None \/ job.value[x][1] = bins_to_analyze[key][2][x]
    /\ pc \in {"for", "poll", "get"} =>
          /\ Len(final_results) = Len(BinsBefore(key))
          /\ \A i \in 1..Len(final_results) :
                final_results[i] = None \/ final_results[i][1] = BinsBefore(key)[i]
    /\ pc = "done" =>
          /\ Len(final_results) = Len(AllBins)
          /\ \A i \in 1..Len(final_results) :
                final_results[i] = None \/ final_results[i][1] = AllBins[i]

\* the second bin of a batch has completed with a result while the first is
\* still being computed
C8_Witness ==
    /\ pc = "poll"
    /\ Len(job.value) >= 2
    /\ job.value[1] = None
    /\ job.value[2] # None
    /\ \E w \in Busy : workers[w].i = 0

\* C9: a bin of a chromosome is queued or being computed only while
\* analyze_bins waits for that chromosome's batch, with the results of every
\* earlier chromosome collected; when the loop moves on, nothing of the batch
\* is queued or being computed.
C9_ChromosomesSequential ==
    /\ (Busy # {} \/ Len(taskq) > 0) =>
          /\ pc = "poll"
          /\ job.keyidx = key
          /\ \A w \in Busy : workers[w].keyidx = key
          /\ Len(final_results) = Len(BinsBefore(key))
    /\ pc \in {"for", "done"} =>
          /\ Busy = {}
          /\ Len(taskq) = 0
          /\ Len(final_results) = Len(BinsBefore(key))

\* a bin of the second chromosome is being computed, the first chromosome's
\* results collected
C9_Witness ==
    /\ key = 2
    /\ Busy # {}
    /\ Len(final_results) > 0
    /\ number_of_processors > 1

\* C10: at most one worker pool is alive at any point of analyze_bins, and
\* none when the report is written.
C10_OnePoolNoneAtReport ==
    /\ Cardinality(pools) <= 1
    /\ pc = "done" => pools = {}

\* the names of the reference table that start with "chr"
KeptNames ==
    {refs[i][1] : i \in {x \in 1..Len(refs) :
        Len(refs[x][1]) >= 3 /\ refs[x][1][1] = "c" /\ refs[x][1][2] = "h"
        /\ refs[x][1][3] = "r"}}

\* C11: with a requested chromosome that is not in the scaffold-filtered
\* table, analyze_bins is left by a KeyError before any bin is enumerated or
\* computed, and it writes no report file.
C11_AbsentChromosomeFailsFirst ==
    (individual_chrom # None /\ individual_chrom \notin KeptNames /\ pc # "start")
    => /\ pc = "raised"
       /\ exc = "KeyError"
       /\ key = 0
       /\ bins_to_analyze = <<>>
       /\ final_results = <<>>
       /\ pools = {}
       /\ workers = <<>>
       /\ report = <<>>

\* the requested chromosome is in the reference table but is a scaffold
C11_Witness ==
    /\ pc = "raised"
    /\ exc = "KeyError"
    /\ individual_chrom = GL1
    /\ \E i \in 1..Len(refs) : refs[i][1] = GL1
    /\ \E i \in 1..Len(refs) : refs[i][1] = chr1 /\ refs[i][2] > 0

-----------------------------------------------------------------------------
(* Properties of the correction path of calculate_bin_coverage (SpecBin) *)

\* the frame with the columns of m and no row
NoRows(m) == [cols |-> m.cols, rows |-> <<>>]

\* the report lines the write loop of analyze_bins produces for one result
LinesFor(v) == ReportLines(<<v>>)

\* C12: with a zero-row initial candidate and a rebuild that raises
\* InvalidIndexError, the call returns (bin, the zero-row matrix it had before
\* the correction) instead of raising, and the write loop gives that result
\* one line, whose read count is 0.
C12_IndexErrorKeepsOriginal ==
    \A i \in 1..Len(calls) :
        LET c == calls[i]
        IN  (c.candidate = 0 /\ c.rebuild = "InvalidIndexError")
            => /\ c.kind = "return"
               /\ c.exc = NoException
               /\ IsPresent(c.value)
               /\ c.value[1] = c.bin
               /\ c.value[2] = NoRows(c.env.matrix)
               /\ Len(LinesFor(c.value)) = 1
               /\ LineFields(LinesFor(c.value)[1])[1] = c.bin
               /\ LineFields(LinesFor(c.value)[1])[2] = <<"0">>

\* the rebuild of a bin whose only rows had missing values raises the
\* indexing error
C12_Witness ==
    \E i \in 1..Len(calls) :
        LET c == calls[i]
        IN  /\ c.candidate = 0 /\ c.corrections = 1
            /\ c.rebuild = "InvalidIndexError"
            /\ Len(c.env.matrix.rows) > 0
            /\ c.kind = "return"

\* C13: with a zero-row initial candidate and a rebuild that raises
\* ValueError, the call does not raise: it goes on with the matrix it had
\* before the correction, logs the correction attempt as FAILED (and not as
\* SUCCESS) and returns (bin, that matrix), which has no row.
C13_ShapeErrorFallsThrough ==
    \A i \in 1..Len(calls) :
        LET c == calls[i]
        IN  (c.candidate = 0 /\ c.rebuild = "ValueError")
            => /\ c.kind = "return"
               /\ c.exc = NoException
               /\ IsPresent(c.value)
               /\ c.value[1] = c.bin
               /\ c.value[2] = NoRows(c.env.matrix)
               /\ <<"info", "Correction attempt FAILED", c.bin>> \in Range(c.log)
               /\ <<"info", "Correction attempt SUCCESS", c.bin>> \notin Range(c.log)

\* the rebuild of a bin with no complete row raises the data-shape error and
\* the attempt is logged as failed
C13_Witness ==
    \E i \in 1..Len(calls) :
        LET c == calls[i]
        IN  /\ c.candidate = 0 /\ c.corrections = 1
            /\ c.rebuild = "ValueError"
            /\ c.kind = "return"
            /\ c.log = <<<<"error", "Matrix concat error", c.bin>>,
                         <<"info", "Correction attempt FAILED", c.bin>>>>

-----------------------------------------------------------------------------
(* The name of the report file (Spec) *)

\* the chromosome field the report name is said to carry
ChromosomeField == IF individual_chrom = None THEN <<>> ELSE individual_chrom

\* C14: the report is output_directory/CompleteBins.<basename of the
\* alignment file>.<chromosome>.csv, where <chromosome> is the requested
\* chromosome, and is empty when none was requested.
C14_ReportFileName ==
    pc = "done" =>
        /\ Len(report) = 1
        /\ report[1].name =
              <<"o", "/">>
              \o <<"C", "o", "m", "p", "l", "e", "t", "e", "B", "i", "n", "s", ".">>
              \o <<"x", ".", "b", "a", "m">> \o <<".">> \o ChromosomeField
              \o <<".", "c", "s", "v">>

-----------------------------------------------------------------------------
(* Properties of remove_scaffolds (SpecEnum) *)

\* name starts with the three characters c, h, r
HasChrPrefix(name) ==
    Len(name) >= 3 /\ name[1] = "c" /\ name[2] = "h" /\ name[3] = "r"

\* C15: remove_scaffolds applied to its own result gives that result again;
\* the result holds exactly the entries whose name starts with "chr" (capital
\* "Chr" does not count), with their lengths; the mapping passed in is the
\* same after the call; and this result is the table analyze_bins goes on with.
C15_RemoveScaffoldsIdempotent ==
    LET M == get_chromosome_lengths(refs)
        run == RemoveScaffoldsRun(M)
        R == remove_scaffolds(M)
    IN  /\ remove_scaffolds(R) = R
        /\ R = SelectSeq(M, LAMBDA e : HasChrPrefix(e[1]))
        /\ \A k \in Keys(R) : Lookup(R, k) = Lookup(M, k)
        /\ run.chromosome_len_dict = M
        /\ RemoveScaffoldsRun(R).chromosome_len_dict = R
        /\ (pc # "start" /\ (individual_chrom = None \/ pc = "raised"))
              => chromosome_lengths = R

\* a table with a scaffold, a capitalised name and a chromosome has been
\* filtered down to the chromosome
C15_Witness ==
    /\ pc = "for"
    /\ individual_chrom = None
    /\ {GL1, Chr3, chr1} \subseteq Keys(refs)
    /\ Keys(chromosome_lengths) = {chr1}
    /\ Lookup(chromosome_lengths, chr1) > 0

-----------------------------------------------------------------------------
(* The wait of analyze_bins for a batch (SpecFair) *)

\* the bins of the current batch that are queued or being computed
Outstanding == Len(taskq) + Cardinality(Busy)

\* C16: when every bin computation terminates, the polling loop of a batch
\* exits in the end and the results of the batch are collected (or its error
\* re-raised); the loop is never left while a chunk of the batch is queued or
\* running; and for a batch without bins the loop condition is false at once.
C16_PollingLoopExits ==
    /\ (pc = "poll") ~> (pc = "get")
    /\ (pc = "get") ~> (pc \in {"for", "raised"})
    /\ [](pc = "get" => (Outstanding = 0 /\ job.number_left = 0))
    /\ []((pc = "poll" /\ Len(bins_to_analyze[key][2]) = 0)
             => (PollDone(job) /\ ~ENABLED PollLog))

\* the loop is waiting on a batch of which one chunk was delivered with an
\* exception and another is still running
C16_Witness ==
    /\ pc = "poll"
    /\ ~job.success
    /\ job.number_left > 0
    /\ Cardinality(Busy) > 0

\* the rows of m in which every column has a call, in their order
CompleteRows(m) ==
    SelectSeq(m.rows, LAMBDA row : \A j \in 1..Len(row) : row[j] # NaN)

\* C17: whichever way calculate_bin_coverage came to return a present result
\* (no correction, correction, correction ended by either handled error), no
\* row of the matrix in it has a missing value.
C17_ResultRowsHaveNoMissing ==
    \A i \in 1..Len(calls) :
        LET c == calls[i]
        IN  (c.kind = "return" /\ IsPresent(c.value))
            => \A r \in 1..Len(c.value[2].rows) :
                  /\ Len(c.value[2].rows[r]) = c.value[2].cols
                  /\ \A j \in 1..c.value[2].cols : c.value[2].rows[r][j] # NaN

\* a corrected matrix with a row that misses a call and a complete row: the
\* result keeps the complete row only
C17_Witness ==
    \E i \in 1..Len(calls) :
        LET c == calls[i]
        IN  /\ c.kind = "return" /\ IsPresent(c.value)
            /\ c.corrections = 1 /\ c.rebuild = "ok"
            /\ Len(c.env.rebuilt.rows) = 2
            /\ Len(c.value[2].rows) = 1

\* C18: after a zero-row initial candidate and a rebuild that succeeds, the
\* result is (bin, the rows of the rebuilt matrix without a missing value), so
\* the report line of the bin counts those rows; when the initial candidate
\* has rows, the result is that candidate.
C18_CorrectedRowsCounted ==
    \A i \in 1..Len(calls) :
        LET c == calls[i]
        IN  /\ (c.candidate = 0 /\ c.rebuild = "ok")
               => /\ c.kind = "return"
                  /\ c.value = <<c.bin, [cols |-> c.env.rebuilt.cols,
                                         rows |-> CompleteRows(c.env.rebuilt)]>>
                  /\ Len(LinesFor(c.value)) = 1
                  /\ LineFields(LinesFor(c.value)[1])[1] = c.bin
                  /\ LineFields(LinesFor(c.value)[1])[2]
                        = Str(Len(CompleteRows(c.env.rebuilt)))
            /\ c.candidate > 0
               => /\ c.kind = "return"
                  /\ c.corrections = 0
                  /\ c.value = <<c.bin, [cols |-> c.env.matrix.cols,
                                         rows |-> CompleteRows(c.env.matrix)]>>

\* the direct matrix has no complete row, the corrected one has three: the
\* line of the bin shows 3
C18_Witness ==
    \E i \in 1..Len(calls) :
        LET c == calls[i]
        IN  /\ c.candidate = 0 /\ c.rebuild = "ok"
            /\ Len(c.env.matrix.rows) > 0
            /\ Len(CompleteRows(c.env.rebuilt)) = 3
            /\ LineFields(LinesFor(c.value)[1])[2] = <<"3">>

-----------------------------------------------------------------------------
(* The bin identifier between generate_bins_list and calculate_bin_coverage *)
(* (SpecBin)                                                                *)

\* C19: for a chromosome name k that remove_scaffolds keeps and an end e that
\* generate_bins_list produces, the call on the identifier k_e (once the
\* parser is open) asks parse_reads for (k, e - bin_size, e), also when k
\* holds an underscore.
C19_BinIdRoundTrip ==
    \A i \in 1..Len(calls) :
        LET c == calls[i]
        IN  \A k \in {chr1, chrUn_x}, n \in 1..MaxCoord :
               (/\ remove_scaffolds(<<<<k, n * bin_size>>>>) = <<<<k, n * bin_size>>>>
                /\ c.bin = BinName(k, n * bin_size)
                /\ c.env.open = "ok")
               => c.asked = <<k, n * bin_size - bin_size, n * bin_size>>

-----------------------------------------------------------------------------
(* The intervals of the bins (SpecEnum) *)

\* the positions of the interval (end - B, end]
Interval(end, B) == {p \in (end - B + 1)..end : TRUE}

\* C20: for each chromosome, of length L, the intervals (end - B, end] of its
\* bins do not overlap, each bin starts where the one before it ends, and
\* every position 1..L lies in exactly one of them.
C20_BinsPartitionChromosome ==
    pc = "for" =>
        \A i \in 1..Len(bins_to_analyze) :
            LET L == Lookup(chromosome_lengths, bins_to_analyze[i][1])
                e == Ends(i)
                n == Len(e)
            IN  /\ \A x, y \in 1..n :
                      x # y => Interval(e[x], bin_size) \cap Interval(e[y], bin_size) = {}
                /\ \A x \in 1..(n - 1) : e[x + 1] - bin_size = e[x]
                /\ \A p \in 1..L :
                      Cardinality({x \in 1..n : p \in Interval(e[x], bin_size)}) = 1

\* a chromosome of two bins of two positions, the second running past the
\* end of the chromosome
C20_Witness ==
    /\ pc = "for"
    /\ bin_size = 2
    /\ \E i \in 1..Len(bins_to_analyze) :
          /\ Lookup(chromosome_lengths, bins_to_analyze[i][1]) = 3
          /\ Ends(i) = <<2, 4>>

====
